---- MODULE Spec2Model ----
(***************************************************************************)
(* A model of the crawler core of spacetime-crawler4py:                    *)
(*   analytics.py  the aggregator (record_page, save_report, the exit and  *)
(*                 signal handlers) and its text helpers;                  *)
(*   scraper.py    the quality gate (scraper), extract_next_links and      *)
(*                 is_valid.                                               *)
(* Python strings are TLA+ strings; a thread is a stack of frames, one per *)
(* active call, and one step of a frame is one statement (or a run of      *)
(* statements that touch no shared state) of the function it executes.     *)
(***************************************************************************)
EXTENDS Integers, Sequences, FiniteSets, TLC

VARIABLES
    unique_pages,             \* analytics.py:25   set of defragmented URLs
    longest_page_url,         \* analytics.py:28
    longest_page_word_count,  \* analytics.py:29
    word_frequency,           \* analytics.py:32   Counter: <<word, count>> in insertion order
    subdomain_pages,          \* analytics.py:35   dict: host -> set of URLs
    _report_written,          \* analytics.py:41
    _lock,                    \* analytics.py:20   "free" or the thread holding it
    stack,                    \* per thread, the frames of its active calls (top last)
    phase,                    \* the interpreter: "run", "atexit" (exit handlers running), "done"
    files,                    \* output/: per artifact, how often it was opened for writing and its content
    applied,                  \* history: the pages whose URL record_page added to unique_pages, in order
    recorded,                 \* history: the pages record_page was called with and did not reject at line 164
    calls,                    \* number of scraper() calls made so far
    signals,                  \* number of SIGINT/SIGTERM deliveries so far
    flushes,                  \* number of explicit save_report() calls so far
    probe                     \* a lone is_valid or extract_next_links call: <<name, argument>>, then the result

vars == <<unique_pages, longest_page_url, longest_page_word_count, word_frequency,
          subdomain_pages, _report_written, _lock, stack, phase, files,
          applied, recorded, calls, signals, flushes, probe>>

analytics == <<unique_pages, longest_page_url, longest_page_word_count,
               word_frequency, subdomain_pages>>

(***************************************************************************)
(* Bounds of the model.                                                    *)
(***************************************************************************)
MaxCalls == 3
MaxSignals == 1
MaxFlushes == 1

(***************************************************************************)
(* Python str operations.                                                  *)
(***************************************************************************)
Min(S) == CHOOSE x \in S : \A y \in S : x <= y

Max(S) == CHOOSE x \in S : \A y \in S : x >= y

\* s[i-1:j] with 1-based inclusive bounds, clipped to the string as Python slices are
Slice(s, i, j) ==
    LET a == IF i < 1 THEN 1 ELSE i
        b == IF j > Len(s) THEN Len(s) ELSE j
    IN  IF a > b THEN "" ELSE SubSeq(s, a, b)

\* the i-th character, "" outside the string
Char(s, i) == Slice(s, i, i)

From(s, i) == Slice(s, i, Len(s))

Upto(s, i) == Slice(s, 1, i)

\* s.find(sub, start) with 1-based positions; 0 when absent
Find(s, sub, start) ==
    LET I == {i \in start..(Len(s) - Len(sub) + 1) : SubSeq(s, i, i + Len(sub) - 1) = sub}
    IN  IF I = {} THEN 0 ELSE Min(I)

\* s.rfind(sub)
RFind(s, sub) ==
    LET I == {i \in 1..(Len(s) - Len(sub) + 1) : SubSeq(s, i, i + Len(sub) - 1) = sub}
    IN  IF I = {} THEN 0 ELSE Max(I)

\* sub in s
Contains(s, sub) == Find(s, sub, 1) # 0

StartsWith(s, pre) == Len(pre) <= Len(s) /\ Upto(s, Len(pre)) = pre

EndsWith(s, suf) == Len(suf) <= Len(s) /\ From(s, Len(s) - Len(suf) + 1) = suf

\* str.lower on the upper-case letters
LowerOf ==
    [A |-> "a", B |-> "b", C |-> "c", D |-> "d", E |-> "e", F |-> "f", G |-> "g",
     H |-> "h", I |-> "i", J |-> "j", K |-> "k", L |-> "l", M |-> "m", N |-> "n",
     O |-> "o", P |-> "p", Q |-> "q", R |-> "r", S |-> "s", T |-> "t", U |-> "u",
     V |-> "v", W |-> "w", X |-> "x", Y |-> "y", Z |-> "z"]

UpperLetters == DOMAIN LowerOf

LowerLetters == {LowerOf[u] : u \in UpperLetters}

Digits == {"0", "1", "2", "3", "4", "5", "6", "7", "8", "9"}

IsUpper(c) == c \in UpperLetters

IsLower(c) == c \in LowerLetters

IsAlpha(c) == IsUpper(c) \/ IsLower(c)

IsDigit(c) == c \in Digits

LowerChar(c) == IF IsUpper(c) THEN LowerOf[c] ELSE c

\* s.lower()
RECURSIVE Lower(_)
Lower(s) ==
    IF Len(s) <= 1 THEN LowerChar(s)
    ELSE Lower(Upto(s, Len(s) \div 2)) \o Lower(From(s, Len(s) \div 2 + 1))

\* the code point order of the characters host names and words are made of
OrderedChars == "-.0123456789ABCDEFGHIJKLMNOPQRSTUVWXYZ_abcdefghijklmnopqrstuvwxyz"

Ord(c) == Find(OrderedChars, c, 1)

\* a < b for Python strings
RECURSIVE StrLess(_, _)
StrLess(a, b) ==
    IF b = "" THEN FALSE
    ELSE IF a = "" THEN TRUE
    ELSE IF Head(a) = Head(b) THEN StrLess(Tail(a), Tail(b))
    ELSE Ord(Head(a)) < Ord(Head(b))

(***************************************************************************)
(* urllib.parse, as analytics.py and scraper.py use it.  A parse result is *)
(* a record; err is TRUE where the library raises ValueError.  The inputs  *)
(* of this model hold no whitespace, no control characters and no          *)
(* bracketed IPv6 host with both brackets.                                 *)
(***************************************************************************)
\* urllib.parse.uses_params and uses_netloc
UsesParams == {"", "ftp", "hdl", "prospero", "http", "imap", "https", "shttp", "rtsp",
               "rtsps", "rtspu", "sip", "sips", "mms", "sftp", "tel"}

UsesNetloc == {"ftp", "http", "gopher", "nntp", "telnet", "imap", "wais", "file", "mms",
               "https", "shttp", "snews", "prospero", "rtsp", "rtsps", "rtspu", "rsync",
               "svn", "svn+ssh", "sftp", "nfs", "git", "git+ssh", "ws", "wss"}

\* the position where the netloc of "//netloc..." ends (urllib.parse._splitnetloc)
NetlocEnd(url) ==
    LET D == {Find(url, c, 3) : c \in {"/", "?", "#"}} \ {0}
    IN  IF D = {} THEN Len(url) + 1 ELSE Min(D)

\* urllib.parse._splitparams
SplitParams(url) ==
    LET i == IF Contains(url, "/") THEN Find(url, ";", RFind(url, "/")) ELSE Find(url, ";", 1)
    IN  IF i = 0 THEN <<url, "">> ELSE <<Upto(url, i - 1), From(url, i + 1)>>

\* s up to the first sep, and s after it ("" when sep is absent): s.split(sep, 1)
BeforeFirst(s, sep) == IF Find(s, sep, 1) = 0 THEN s ELSE Upto(s, Find(s, sep, 1) - 1)

AfterFirst(s, sep) == IF Find(s, sep, 1) = 0 THEN "" ELSE From(s, Find(s, sep, 1) + 1)

\* urlsplit: url[:i] is a scheme, i the position of the first colon
HasScheme(url, i) ==
    /\ i > 1
    /\ IsAlpha(Char(url, 1))
    /\ \A k \in 1..(i - 1) :
           IsAlpha(Char(url, k)) \/ IsDigit(Char(url, k)) \/ Char(url, k) \in {"+", "-", "."}

\* urlparse: the result, the params split off the path for the schemes that use them
ParseResult(scheme, netloc, path, query, fragment) ==
    [err      |-> Contains(netloc, "[") # Contains(netloc, "]"),
     scheme   |-> scheme,
     netloc   |-> netloc,
     path     |-> IF scheme \in UsesParams /\ Contains(path, ";")
                  THEN SplitParams(path)[1] ELSE path,
     params   |-> IF scheme \in UsesParams /\ Contains(path, ";")
                  THEN SplitParams(path)[2] ELSE "",
     query    |-> query,
     fragment |-> fragment]

\* urlsplit after the fragment is split off
ParseQuery(scheme, netloc, rest, fragment) ==
    ParseResult(scheme, netloc, BeforeFirst(rest, "?"), AfterFirst(rest, "?"), fragment)

\* urlsplit after the netloc is split off
ParseFragment(scheme, netloc, rest) ==
    ParseQuery(scheme, netloc, BeforeFirst(rest, "#"), AfterFirst(rest, "#"))

\* urlsplit after the scheme is split off
ParseNetloc(scheme, rest) ==
    IF Upto(rest, 2) = "//"
    THEN ParseFragment(scheme, Slice(rest, 3, NetlocEnd(rest) - 1), From(rest, NetlocEnd(rest)))
    ELSE ParseFragment(scheme, "", rest)

\* urllib.parse.urlparse(url)
urlparse(url) ==
    IF HasScheme(url, Find(url, ":", 1))
    THEN ParseNetloc(Lower(Upto(url, Find(url, ":", 1) - 1)), From(url, Find(url, ":", 1) + 1))
    ELSE ParseNetloc("", url)

\* urlunsplit: "//netloc/path" when there is a netloc (or the scheme has one)
WithNetloc(scheme, netloc, url) ==
    IF netloc # "" \/ (scheme \in UsesNetloc /\ Upto(url, 2) # "//")
    THEN "//" \o netloc \o (IF url # "" /\ Upto(url, 1) # "/" THEN "/" \o url ELSE url)
    ELSE url

\* urllib.parse.urlunparse((scheme, netloc, path, params, query, fragment))
urlunparse(scheme, netloc, path, params, query, fragment) ==
    (IF scheme # "" THEN scheme \o ":" ELSE "")
    \o WithNetloc(scheme, netloc, IF params # "" THEN path \o ";" \o params ELSE path)
    \o (IF query # "" THEN "?" \o query ELSE "")
    \o (IF fragment # "" THEN "#" \o fragment ELSE "")

\* urldefrag on the parsed url
Defragmented(p) ==
    IF p.err THEN "ValueError"
    ELSE urlunparse(p.scheme, p.netloc, p.path, p.params, p.query, "")

\* urllib.parse.urldefrag(url)[0]; "ValueError" where urlparse raises
urldefrag(url) == IF Contains(url, "#") THEN Defragmented(urlparse(url)) ELSE url

\* _hostinfo: the host of "host:port" or "[host]:port", and the lower-casing of
\* ParseResult.hostname (all but a %zone)
HostOf(hostinfo) ==
    IF Contains(hostinfo, "[")
    THEN BeforeFirst(AfterFirst(hostinfo, "["), "]")
    ELSE BeforeFirst(hostinfo, ":")

LowerHost(host) ==
    IF Contains(host, "%")
    THEN Lower(BeforeFirst(host, "%")) \o "%" \o AfterFirst(host, "%")
    ELSE Lower(host)

\* ParseResult.hostname, "" standing for None
hostname(p) ==
    LowerHost(HostOf(IF Contains(p.netloc, "@")
                     THEN From(p.netloc, RFind(p.netloc, "@") + 1) ELSE p.netloc))

\* analytics.defragment_url
defragment_url(url) == urldefrag(url)

\* the host of a parsed url, as get_subdomain and is_valid take it
HostName(p) == IF p.err THEN "" ELSE Lower(hostname(p))

\* get_subdomain lines 140-143
UciHost(host) == IF EndsWith(host, "uci.edu") THEN host ELSE ""

\* analytics.get_subdomain, "" standing for None
get_subdomain(url) == UciHost(HostName(urlparse(url)))

(***************************************************************************)
(* Text.  A text is a sequence of runs <<w, n>>: the word w (a string      *)
(* without whitespace) n times in a row, the words separated by single     *)
(* spaces.  [a-zA-Z]+ never matches across whitespace, so tokenizing a     *)
(* text is tokenizing its words.                                           *)
(***************************************************************************)
RECURSIVE SumReps(_)
SumReps(runs) == IF runs = <<>> THEN 0 ELSE Head(runs)[2] + SumReps(Tail(runs))

\* re.findall(r'[a-zA-Z]+', w): the maximal alphabetic substrings of w, in order
RECURSIVE AlphaRuns(_, _)
AlphaRuns(w, cur) ==
    IF w = "" THEN (IF cur = "" THEN <<>> ELSE <<cur>>)
    ELSE IF IsAlpha(Head(w)) THEN AlphaRuns(Tail(w), cur \o Head(w))
    ELSE (IF cur = "" THEN <<>> ELSE <<cur>>) \o AlphaRuns(Tail(w), "")

\* tokenize keeping the tokens of three letters as well
TokenizeFromThree(w) == SelectSeq(AlphaRuns(Lower(w), ""), LAMBDA tok : Len(tok) > 2)

\* analytics.tokenize on one word
tokenize_word(w) == SelectSeq(AlphaRuns(Lower(w), ""), LAMBDA tok : Len(tok) > 3)

\* each token of a word, with the number of times the word is repeated
TokenRuns(toks, n) == [i \in 1..Len(toks) |-> <<toks[i], n>>]

\* analytics.tokenize: the tokens of a text, as runs
RECURSIVE tokenize(_)
tokenize(text) ==
    IF text = <<>> THEN <<>>
    ELSE TokenRuns(tokenize_word(Head(text)[1]), Head(text)[2]) \o tokenize(Tail(text))

\* analytics.count_words
count_words(text) == SumReps(tokenize(text))

\* analytics._stopwords after load_stopwords(): a sample of stopwords.txt
stopwords == {"that", "this", "with", "from", "have"}

\* A Counter is the sequence of its <<key, count>> items in insertion order.
CounterKeys(c) == {c[i][1] : i \in 1..Len(c)}

CounterGet(c, w) ==
    IF w \in CounterKeys(c) THEN (CHOOSE i \in 1..Len(c) : c[i][1] = w) ELSE 0

\* the count of w in c (0 when absent)
Count(c, w) == IF CounterGet(c, w) = 0 THEN 0 ELSE c[CounterGet(c, w)][2]

\* c.update(d) with the counts of d put in the place of those of c, not added
CounterReplace(c, d) ==
    [i \in 1..Len(c) |->
        <<c[i][1], IF c[i][1] \in CounterKeys(d) THEN Count(d, c[i][1]) ELSE c[i][2]>>]
    \o SelectSeq(d, LAMBDA item : item[1] \notin CounterKeys(c))

\* c.update(d) for a Counter d: the counts of d are added to those of c, and the
\* keys that are new to c are inserted in the order d has them
CounterUpdate(c, d) ==
    [i \in 1..Len(c) |-> <<c[i][1], c[i][2] + Count(d, c[i][1])>>]
    \o SelectSeq(d, LAMBDA item : item[1] \notin CounterKeys(c))

\* Counter(tokens) for tokens given as runs: the keys in the order of their first
\* occurrence (the count of the first half of the runs, updated with the second's)
RECURSIVE CounterOf(_)
CounterOf(runs) ==
    IF Len(runs) <= 1 THEN runs
    ELSE CounterUpdate(CounterOf(SubSeq(runs, 1, Len(runs) \div 2)),
                       CounterOf(SubSeq(runs, Len(runs) \div 2 + 1, Len(runs))))

\* analytics.get_word_frequencies
get_word_frequencies(text, stop) ==
    CounterOf(SelectSeq(tokenize(text), LAMBDA r : r[1] \notin stop))

(***************************************************************************)
(* A fetched page: the url and the response the fetch layer hands to       *)
(* scraper().  raw is FALSE when resp.raw_response is None, len is         *)
(* len(content), ok is FALSE when BeautifulSoup fails on the content, and  *)
(* the parsed document is the sequence of its elements <<tag, text>> and   *)
(* the href attributes of its <a href> tags, in document order.            *)
(***************************************************************************)
NoPage == [url |-> "", status |-> 0, raw |-> FALSE, len |-> 0, ok |-> FALSE,
           nodes |-> <<>>, hrefs |-> <<>>]

\* soup.get_text after decomposing the elements whose tag is in removed
RECURSIVE VisibleRuns(_, _)
VisibleRuns(nodes, removed) ==
    IF nodes = <<>> THEN <<>>
    ELSE (IF Head(nodes)[1] \in removed THEN <<>> ELSE Head(nodes)[2])
         \o VisibleRuns(Tail(nodes), removed)

\* analytics.get_visible_text
get_visible_text(page) ==
    IF page.ok
    THEN VisibleRuns(page.nodes, {"script", "style", "head", "meta", "link", "noscript"})
    ELSE <<>>

(***************************************************************************)
(* scraper.is_valid.  Each rule is the condition of one `return False`.    *)
(***************************************************************************)
AllDigits(s) == \A i \in 1..Len(s) : IsDigit(Char(s, i))

\* re.search(r"(^|[seps])key=", query)
HasParam(query, key, seps) ==
    \/ StartsWith(query, key \o "=")
    \/ \E sep \in seps : Contains(query, sep \o key \o "=")

\* ALLOWED_HOST_NAMES without the dot in front of the department
AllowedHostSuffix(host) ==
    \E d \in {"ics.uci.edu", "cs.uci.edu", "informatics.uci.edu", "stat.uci.edu"} :
        EndsWith(host, d)

\* ALLOWED_HOST_NAMES.match(host_name)
AllowedHost(host) ==
    \E d \in {"ics.uci.edu", "cs.uci.edu", "informatics.uci.edu", "stat.uci.edu"} :
        host = d \/ EndsWith(host, "." \o d)

BadExtensionNames ==
    {"css", "js", "bmp", "gif", "jpg", "jpeg", "ico", "png", "tif", "tiff", "mid", "mp2",
     "mp3", "mp4", "wav", "avi", "mov", "mpeg", "ram", "m4v", "mkv", "ogg", "ogv", "pdf",
     "ps", "eps", "tex", "ppt", "pptx", "doc", "docx", "xls", "xlsx", "names", "data",
     "dat", "exe", "bz2", "tar", "msi", "bin", "7z", "psd", "dmg", "iso", "epub", "dll",
     "cnf", "tgz", "sha1", "thmx", "mso", "arff", "rtf", "jar", "csv", "rm", "smil",
     "wmv", "swf", "wma", "zip", "rar", "gz"}

\* BAD_EXTENSIONS.match(path)
BadExtension(path) == \E x \in BadExtensionNames : EndsWith(path, "." \o x)

\* re.search(r"/(a|b|...)/", path)
HasSegment(path, names) == \E n \in names : Contains(path, "/" \o n \o "/")

GitlabSegments ==
    {"tree", "blob", "blame", "raw", "commit", "commits", "graph", "network", "compare",
     "pipelines", "job", "jobs", "archive"}

ActionParams ==
    {"action", "do", "export", "share", "type", "format", "rev", "rev2", "image", "diff",
     "oldid", "replytocom", "idx", "view", "expanded", "sort"}

EndpointSegments ==
    {"api", "feed", "rss", "atom", "xmlrpc", "wp-json", "wp-content", "wp-includes"}

\* seg occurs in path at k and again after that occurrence
TwiceFrom(path, seg, k) == k # 0 /\ Find(path, seg, k + Len(seg)) # 0

\* re.search(r"^.*?(/.+?/).*?\1.*?\1.*?$", path): some /x/ (x not empty) occurs
\* three times without overlap
RepeatingDirectory(path) ==
    \E i \in 1..Len(path) : \E j \in (i + 2)..Len(path) :
        /\ Char(path, i) = "/"
        /\ Char(path, j) = "/"
        /\ TwiceFrom(path, SubSeq(path, i, j), Find(path, SubSeq(path, i, j), j + 1))

\* re.search(r"\d{4}-\d{2}(-\d{2})?", path)
DatePattern(path) ==
    \E i \in 1..(Len(path) - 6) :
        /\ AllDigits(SubSeq(path, i, i + 3))
        /\ Char(path, i + 4) = "-"
        /\ AllDigits(SubSeq(path, i + 5, i + 6))

\* "-" a digits "-" b digits from position s to the end of the path
MonthDayAt(path, s, a) ==
    /\ s >= 1
    /\ Char(path, s) = "-"
    /\ AllDigits(SubSeq(path, s + 1, s + a))
    /\ Char(path, s + a + 1) = "-"
    /\ AllDigits(SubSeq(path, s + a + 2, Len(path)))

\* re.search(r"-\d{1,2}-\d{1,2}$", path)
TrailingMonthDay(path) ==
    \E a \in {1, 2} : \E b \in {1, 2} : MonthDayAt(path, Len(path) - (a + b + 2) + 1, a)

\* (/|$) at position k
SegmentEnd(path, k) == k = Len(path) + 1 \/ Char(path, k) = "/"

\* re.search(r"/(19|20)\d{2}(-\d{2})?(/|$)", path)
YearSegment(path) ==
    \E i \in 1..(Len(path) - 4) :
        /\ Char(path, i) = "/"
        /\ SubSeq(path, i + 1, i + 2) \in {"19", "20"}
        /\ AllDigits(SubSeq(path, i + 3, i + 4))
        /\ \/ SegmentEnd(path, i + 5)
           \/ /\ Char(path, i + 5) = "-"
              /\ i + 7 <= Len(path)
              /\ AllDigits(SubSeq(path, i + 6, i + 7))
              /\ SegmentEnd(path, i + 8)

\* re.search(r"/page/\d+", path)
Pagination(path) ==
    \E i \in 1..(Len(path) - 6) : SubSeq(path, i, i + 5) = "/page/" /\ IsDigit(Char(path, i + 6))

\* the trap rules of is_valid on the lower-cased host, path and query
TrapRule(host_name, path, query) ==
    \/ BadExtension(path)
    \/ Contains(path, "doku.php/group:") \/ Contains(path, "doku.php/support:")
    \/ HasSegment(path, {"dataset", "datasets"})
    \/ HasParam(query, "c", {"&", ";"}) \/ HasParam(query, "o", {"&", ";"})
    \/ \E k \in {"ical", "outlook-ical", "eventdisplay", "tribe"} : HasParam(query, k, {"&"})
    \/ /\ Contains(host_name, "grape.ics.uci.edu")
       /\ \/ Contains(path, "timeline") \/ Contains(query, "timeline")
          \/ Contains(path, "attachment") \/ Contains(path, "raw-attachment")
    \/ /\ Contains(host_name, "ngs.ics.uci.edu")
       /\ (Contains(path, "wp-login.php") \/ Contains(query, "redirect_to="))
    \/ /\ Contains(host_name, "archive.ics.uci.edu")
       /\ (Contains(path, "ml/machine-learning-databases") \/ Contains(path, "/dataset/"))
    \/ Contains(host_name, "gitlab") /\ HasSegment(path, GitlabSegments)
    \/ \E k \in ActionParams : HasParam(query, k, {"&"})
    \/ Contains(path, "/event/") \/ Contains(path, "/events/")
    \/ Contains(path, "/~eppstein/pix/")
    \/ HasSegment(path, EndpointSegments)
    \/ RepeatingDirectory(path)
    \/ DatePattern(path)
    \/ TrailingMonthDay(path)
    \/ YearSegment(path)
    \/ Pagination(path)

\* is_valid lines 146-256 on the parsed url
ValidParts(scheme, host_name, path, query) ==
    IF scheme \notin {"http", "https"} THEN "False"
    ELSE IF host_name = "" THEN "False"
    ELSE IF ~AllowedHost(host_name) THEN "False"
    ELSE IF TrapRule(host_name, path, query) THEN "False"
    ELSE "True"

ValidParsed(p) ==
    IF p.err THEN "ValueError"
    ELSE ValidParts(p.scheme, HostName(p), Lower(p.path), Lower(p.query))

ValidDefragmented(d) == IF d = "ValueError" THEN "ValueError" ELSE ValidParsed(urlparse(d))

\* scraper.is_valid(url) for a str url: "True", "False", or "ValueError" where
\* urldefrag or urlparse raises (is_valid catches TypeError only)
is_valid(url) == ValidDefragmented(urldefrag(url))

(***************************************************************************)
(* urllib.parse.urljoin, as extract_next_links uses it.                    *)
(***************************************************************************)
\* s.split(sep) for a one-character sep
RECURSIVE Split(_, _)
Split(s, sep) ==
    LET i == Find(s, sep, 1)
    IN  IF i = 0 THEN <<s>> ELSE <<Upto(s, i - 1)>> \o Split(From(s, i + 1), sep)

\* sep.join(parts)
RECURSIVE Join(_, _)
Join(parts, sep) ==
    IF parts = <<>> THEN ""
    ELSE IF Len(parts) = 1 THEN parts[1]
    ELSE parts[1] \o sep \o Join(Tail(parts), sep)

\* s.strip() for texts whose only whitespace is the space
RECURSIVE Strip(_)
Strip(s) ==
    IF StartsWith(s, " ") THEN Strip(From(s, 2))
    ELSE IF EndsWith(s, " ") THEN Strip(Upto(s, Len(s) - 1))
    ELSE s

ButLast(q) == SubSeq(q, 1, Len(q) - 1)

\* the loop of urljoin that resolves "." and ".." segments
RECURSIVE ResolveDots(_, _)
ResolveDots(segments, resolved) ==
    IF segments = <<>> THEN resolved
    ELSE IF Head(segments) = ".."
         THEN ResolveDots(Tail(segments), IF resolved = <<>> THEN <<>> ELSE ButLast(resolved))
    ELSE IF Head(segments) = "." THEN ResolveDots(Tail(segments), resolved)
    ELSE ResolveDots(Tail(segments), Append(resolved, Head(segments)))

UsesRelative == {"", "ftp", "http", "gopher", "nntp", "imap", "wais", "file", "https",
                 "shttp", "mms", "prospero", "rtsp", "rtsps", "rtspu", "sftp", "svn",
                 "svn+ssh", "ws", "wss"}

\* base_parts: the segments of the base path without the last one
BaseParts(bp) == IF bp[Len(bp)] # "" THEN ButLast(bp) ELSE bp

\* segments[1:-1] = filter(None, segments[1:-1])
FilterInner(all) ==
    IF Len(all) <= 1 THEN all
    ELSE <<all[1]>> \o SelectSeq(SubSeq(all, 2, Len(all) - 1), LAMBDA x : x # "")
         \o <<all[Len(all)]>>

\* the segments of the joined path, before "." and ".." are resolved
Segments(bpath, path) ==
    IF Upto(path, 1) = "/" THEN Split(path, "/")
    ELSE FilterInner(BaseParts(Split(bpath, "/")) \o Split(path, "/"))

\* '/'.join(resolved_path) or '/'
JoinedPath(segments) ==
    IF Join(ResolveDots(segments, <<>>)
            \o (IF segments[Len(segments)] \in {".", ".."} THEN <<"">> ELSE <<>>), "/") = ""
    THEN "/"
    ELSE Join(ResolveDots(segments, <<>>)
              \o (IF segments[Len(segments)] \in {".", ".."} THEN <<"">> ELSE <<>>), "/")

\* urljoin on the parsed base b and the url u parsed with the base's scheme as default
JoinParsed(url, b, u) ==
    IF u.scheme # b.scheme \/ u.scheme \notin UsesRelative THEN url
    ELSE IF u.scheme \in UsesNetloc /\ u.netloc # ""
         THEN urlunparse(u.scheme, u.netloc, u.path, u.params, u.query, u.fragment)
    ELSE IF u.path = "" /\ u.params = ""
         THEN urlunparse(u.scheme, IF u.scheme \in UsesNetloc THEN b.netloc ELSE u.netloc,
                         b.path, b.params, IF u.query = "" THEN b.query ELSE u.query,
                         u.fragment)
    ELSE urlunparse(u.scheme, IF u.scheme \in UsesNetloc THEN b.netloc ELSE u.netloc,
                    JoinedPath(Segments(b.path, u.path)), u.params, u.query, u.fragment)

\* urlparse(url, bscheme): the base's scheme is the default, and the params are
\* split off only for the schemes that use them
WithDefaultScheme(u, bscheme) ==
    IF u.scheme # "" THEN u
    ELSE IF bscheme \notin UsesParams /\ u.params # ""
         THEN [u EXCEPT !.scheme = bscheme, !.path = u.path \o ";" \o u.params, !.params = ""]
    ELSE [u EXCEPT !.scheme = bscheme]

JoinBase(url, b, u) ==
    IF b.err \/ u.err THEN "ValueError" ELSE JoinParsed(url, b, WithDefaultScheme(u, b.scheme))

\* urllib.parse.urljoin(base, url); "ValueError" where a parse raises
urljoin(base, url) ==
    IF base = "" THEN url
    ELSE IF url = "" THEN base
    ELSE JoinBase(url, urlparse(base), urlparse(url))

(***************************************************************************)
(* scraper.py: the quality gate and extract_next_links.                    *)
(***************************************************************************)
MIN_CONTENT_LENGTH == 100

MAX_CONTENT_LENGTH == 10000000

MIN_WORD_COUNT == 50

NON_CONTENT_ELEMENTS ==
    {"script", "style", "noscript", "link", "meta", "base", "nav", "header", "footer",
     "aside", "menu", "form", "input", "button", "select", "textarea", "label",
     "datalist", "output", "iframe", "svg", "canvas", "template", "dialog", "object",
     "embed", "applet", "video", "audio", "track", "picture", "source", "map", "area",
     "param"}

\* the gate without the word count of lines 64-72
GateWithoutWordCount(page) ==
    \/ page.status # 200
    \/ ~page.raw \/ page.len = 0
    \/ page.len > MAX_CONTENT_LENGTH
    \/ page.len < MIN_CONTENT_LENGTH
    \/ ~page.ok

\* scraper lines 38-76: the conditions under which scraper returns [] at once
GateRejects(page) ==
    \/ page.status # 200
    \/ ~page.raw \/ page.len = 0
    \/ page.len > MAX_CONTENT_LENGTH
    \/ page.len < MIN_CONTENT_LENGTH
    \/ ~page.ok
    \/ SumReps(VisibleRuns(page.nodes, NON_CONTENT_ELEMENTS)) < MIN_WORD_COUNT

\* lines 125-127 of the loop of extract_next_links: the links with full_url appended
\* when its scheme is http or https; <<"ValueError">> in front when a parse raises
KeepHttp(links, full) ==
    IF full = "ValueError" THEN <<"ValueError">> \o links
    ELSE IF urlparse(full).err THEN <<"ValueError">> \o links
    ELSE IF urlparse(full).scheme \in {"http", "https"} THEN Append(links, full)
    ELSE links

\* lines 106-122: TRUE when the loop skips the href
SkipHref(href) ==
    \/ href = ""
    \/ StartsWith(href, "javascript:") \/ StartsWith(href, "mailto:")
    \/ StartsWith(href, "tel:") \/ href = "#"
    \/ Split(href, "#")[1] = ""

\* the loop of extract_next_links; an exception ends it with the links found so far
RECURSIVE ExtractLoop(_, _, _)
ExtractLoop(url, hrefs, links) ==
    IF links # <<>> /\ links[1] = "ValueError" THEN Tail(links)
    ELSE IF hrefs = <<>> THEN links
    ELSE IF SkipHref(Strip(Head(hrefs))) THEN ExtractLoop(url, Tail(hrefs), links)
    ELSE ExtractLoop(url, Tail(hrefs),
                     KeepHttp(links, urljoin(url, Split(Strip(Head(hrefs)), "#")[1])))

\* scraper.extract_next_links
extract_next_links(url, page) ==
    IF page.status # 200 \/ ~page.raw \/ page.len = 0 THEN <<>>
    ELSE IF ~page.ok THEN <<>>
    ELSE ExtractLoop(url, page.hrefs, <<>>)

\* the links of the page as extracted, without the filter of line 82
ScrapedUnfiltered(page) == extract_next_links(page.url, page)

\* scraper lines 81-82: the links scraper returns for a page it accepted
ScrapedLinks(page) ==
    SelectSeq(extract_next_links(page.url, page), LAMBDA link : is_valid(link) = "True")

\* record_page line 164: the early return on missing content
RecordRejects(page) == ~page.raw \/ page.len = 0

(***************************************************************************)
(* save_report: what it writes.                                            *)
(***************************************************************************)
TopN == 50

\* ties in the reverse of the insertion order
BeforeTiesReversed(c, k) ==
    {j \in 1..Len(c) : c[j][2] > c[k][2] \/ (c[j][2] = c[k][2] /\ j > k)}

\* the items of c that come before c[k] in sorted(items, key=count, reverse=True):
\* the sort is stable, so ties keep the insertion order
Before(c, k) ==
    {j \in 1..Len(c) : c[j][2] > c[k][2] \/ (c[j][2] = c[k][2] /\ j < k)}

\* the item at each place of order, where order[k] is the place of c[k]
Placed(c, order) == [r \in 1..Len(c) |-> c[CHOOSE k \in 1..Len(c) : order[k] = r]]

\* sorted(c.items(), key=count, reverse=True)
SortedByCount(c) == Placed(c, [k \in 1..Len(c) |-> Cardinality(Before(c, k)) + 1])

\* Counter.most_common(n)
most_common(c, n) == SubSeq(SortedByCount(c), 1, Min({n, Len(c)}))

\* sorted(keys) for string keys
RECURSIVE Sorted(_)
Sorted(S) ==
    IF S = {} THEN <<>>
    ELSE LET m == CHOOSE x \in S : \A y \in S \ {x} : StrLess(x, y)
         IN  <<m>> \o Sorted(S \ {m})

\* the rows "<subdomain>, <count>" of the report
SubdomainRows(pages, hosts) ==
    [i \in 1..Len(hosts) |-> <<hosts[i], Cardinality(pages[hosts[i]])>>]

Artifacts == {"report_summary.txt", "top50_words.csv", "subdomains.csv"}

\* the analytics state (the module globals of analytics.py) as one value
State ==
    [unique_pages |-> unique_pages,
     longest_page_url |-> longest_page_url,
     longest_page_word_count |-> longest_page_word_count,
     word_frequency |-> word_frequency,
     subdomain_pages |-> subdomain_pages]

\* the content save_report writes to each artifact when the state is s
Report(artifact, s) ==
    IF artifact = "report_summary.txt"
    THEN <<Cardinality(s.unique_pages), s.longest_page_url, s.longest_page_word_count,
           most_common(s.word_frequency, TopN), Cardinality(DOMAIN s.subdomain_pages),
           SubdomainRows(s.subdomain_pages, Sorted(DOMAIN s.subdomain_pages))>>
    ELSE IF artifact = "top50_words.csv" THEN most_common(s.word_frequency, TopN)
    ELSE SubdomainRows(s.subdomain_pages, Sorted(DOMAIN s.subdomain_pages))

(***************************************************************************)
(* The pages the fetch layer hands to scraper() in Spec.                   *)
(***************************************************************************)
Html(url, len, body, hrefs) ==
    [url |-> url, status |-> 200, raw |-> TRUE, len |-> len, ok |-> TRUE,
     nodes |-> body, hrefs |-> hrefs]

\* 50 words outside markup the gate strips; 63 tokens of 4 letters or more
PageA ==
    Html("http://www.ics.uci.edu/a", 2000,
         << <<"p", << <<"Research", 30>>, <<"data-mining", 10>>, <<"that", 10>> >> >>,
            <<"script", << <<"function", 5>> >> >>,
            <<"nav", << <<"Home", 3>> >> >> >>,
         <<"/b#top", "http://vision.ics.uci.edu/b", "mailto:x@ics.uci.edu",
           "http://www.ics.uci.edu/calendar/2024-05">>)

\* the URL of PageA with a fragment, and another text
PageA2 ==
    Html("http://www.ics.uci.edu/a#top", 1500,
         << <<"p", << <<"systems", 70>> >> >> >>, <<>>)

\* as many tokens as PageA, under another host
PageB ==
    Html("http://vision.ics.uci.edu/b", 1800,
         << <<"p", << <<"vision", 60>>, <<"research", 3>> >> >> >>, <<"http://www.ics.uci.edu/a">>)

\* a host outside uci.edu and a text without any token of 4 letters
PageC ==
    Html("http://www.example.com/c", 900, << <<"p", << <<"42", 50>> >> >> >>, <<>>)

\* a 200-byte page with 30 visible words
PageD ==
    Html("http://www.ics.uci.edu/d", 200, << <<"p", << <<"short", 30>> >> >> >>,
         <<"http://www.ics.uci.edu/e">>)

Pages == {PageA, PageA2, PageB, PageC, PageD}

(***************************************************************************)
(* The pages of SpecSeq: one for each way the gate of scraper() turns a    *)
(* page down, and two whose URLs differ in the fragment only.              *)
(***************************************************************************)
Page404 == [PageA EXCEPT !.url = "http://www.ics.uci.edu/gone", !.status = 404]

\* resp.raw_response is None
PageNoRaw == [PageA EXCEPT !.url = "http://www.ics.uci.edu/noraw", !.raw = FALSE]

\* resp.raw_response.content is b""
PageEmpty == [PageA EXCEPT !.url = "http://www.ics.uci.edu/empty", !.len = 0]

PageHuge == [PageA EXCEPT !.url = "http://www.ics.uci.edu/huge", !.len = MAX_CONTENT_LENGTH + 1]

\* 99 bytes: fifty one-letter words
PageTiny ==
    Html("http://www.ics.uci.edu/tiny", MIN_CONTENT_LENGTH - 1,
         << <<"p", << <<"a", 50>> >> >> >>, <<"http://www.ics.uci.edu/e">>)

\* content BeautifulSoup raises on
PageBroken == [PageA EXCEPT !.url = "http://www.ics.uci.edu/broken", !.ok = FALSE]

\* 10 visible words; the rest is markup the gate strips
PageNav ==
    Html("http://www.ics.uci.edu/nav", 3000,
         << <<"nav", << <<"menu", 100>> >> >>, <<"p", << <<"welcome", 10>> >> >> >>,
         <<"http://www.ics.uci.edu/e">>)

\* an empty query, without and with a fragment
PageQ ==
    Html("http://www.ics.uci.edu/q?", 1200, << <<"p", << <<"query", 60>> >> >> >>, <<>>)

PageQ2 ==
    Html("http://www.ics.uci.edu/q?#top", 1300, << <<"p", << <<"fragment", 80>> >> >> >>,
         <<>>)

SeqPages ==
    {PageA, PageA2, PageC, PageD, PageQ, PageQ2, Page404, PageNoRaw, PageEmpty, PageHuge,
     PageTiny, PageBroken, PageNav}

(***************************************************************************)
(* The pages of SpecReport and SpecPure: more than TopN distinct words,    *)
(* a host outside uci.edu that ends in its letters, words of three         *)
(* letters, and hrefs urljoin raises on.                                   *)
(***************************************************************************)
Alphabet == "abcdefghijklmnopqrstuvwxyz"

\* the i-th of 52 distinct words: terma, ..., termz, termaz, ..., termzz
Term(i) ==
    "term" \o Char(Alphabet, ((i - 1) % 26) + 1) \o (IF i > 26 THEN "z" ELSE "")

\* 52 distinct words, a third of them three times, a third twice, a third once
PageMany ==
    Html("http://www.ics.uci.edu/many", 4000,
         << <<"p", [i \in 1..52 |-> <<Term(i), (i % 3) + 1>>] \o << <<"research", 2>> >> >> >>,
         <<>>)

\* a host that ends in uci.edu and is not under it; words of three letters
PageOutside ==
    Html("http://www.notuci.edu/x", 1000,
         << <<"p", << <<"The", 30>>, <<"UCI", 30>>, <<"campus", 5>> >> >> >>,
         <<"http://www.ics.uci.edu/a">>)

\* hrefs: a relative one with a fragment, one urljoin raises on, and one behind it
PageBadHref ==
    Html("http://www.ics.uci.edu/links", 2500, << <<"p", << <<"links", 80>> >> >> >>,
         <<" /ok#here ", "http://[bad/x", "/never">>)

\* the href urljoin raises on is the first
PageBadFirst ==
    Html("http://www.ics.uci.edu/first", 2500, << <<"p", << <<"links", 80>> >> >> >>,
         <<"http://[bad/x", "/never">>)

LinkPages == {PageA, PageB, PageBroken, Page404, PageBadHref, PageBadFirst}

ReportPages == {PageA, PageB, PageMany, PageOutside, PageBadHref}

\* what scraper and record_page compute from their arguments alone: defragged_url
\* (line 159), subdomain (188), word_count (200), frequencies (208) of record_page
\* and the list scraper returns (scraper.py lines 81-82)
Locals(page) ==
    [defragged_url |-> defragment_url(page.url),
     subdomain |-> get_subdomain(defragment_url(page.url)),
     word_count |-> count_words(get_visible_text(page)),
     frequencies |-> get_word_frequencies(get_visible_text(page), stopwords),
     links |-> ScrapedLinks(page)]

\* ... for each page of the model
locals == [page \in Pages \cup SeqPages \cup ReportPages |-> Locals(page)]

(***************************************************************************)
(* Threads and frames.  main is the interpreter's main thread: it runs the *)
(* atexit handler, and the signal handler on top of whatever it was doing. *)
(***************************************************************************)
Workers == {"w1", "w2"}

Threads == Workers \cup {"main"}

Frame(fn, pc, via, page) == [fn |-> fn, pc |-> pc, via |-> via, page |-> page, links |-> <<>>]

Depth(t) == Len(stack[t])

Top(t) == stack[t][Depth(t)]

Running(t, fn, pc) ==
    /\ phase # "done"
    /\ stack[t] # <<>>
    /\ Top(t).fn = fn
    /\ Top(t).pc = pc

SetTop(t, f) == [stack EXCEPT ![t][Depth(t)] = f]

Goto(t, pc) == SetTop(t, [Top(t) EXCEPT !.pc = pc])

Pop(t) == [stack EXCEPT ![t] = SubSeq(@, 1, Len(@) - 1)]

Push(t, f) == [stack EXCEPT ![t] = Append(@, f)]

counters == <<calls, signals, flushes>>

Init ==
    /\ unique_pages = {}
    /\ longest_page_url = ""
    /\ longest_page_word_count = 0
    /\ word_frequency = <<>>
    /\ subdomain_pages = [h \in {} |-> {}]
    /\ _report_written = FALSE
    /\ _lock = "free"
    /\ stack = [t \in Threads |-> <<>>]
    /\ phase = "run"
    /\ files = [a \in Artifacts |-> [opens |-> 0, content |-> <<>>]]
    /\ applied = <<>>
    /\ recorded = {}
    /\ calls = 0
    /\ signals = 0
    /\ flushes = 0
    /\ probe = <<>>

(***************************************************************************)
(* scraper(url, resp) and, inside it, record_page(url, resp).              *)
(***************************************************************************)
\* scraper lines 38-79 and record_page lines 161-177: everything before the lock
ScraperCall(t, page) ==
    /\ phase # "done"
    /\ stack[t] = <<>>
    /\ calls < MaxCalls
    /\ calls' = calls + 1
    /\ IF GateRejects(page)
       THEN /\ stack' = Push(t, Frame("scraper", "ret", "call", page))
            /\ UNCHANGED recorded
       ELSE IF RecordRejects(page)
       THEN /\ stack' = Push(t, [Frame("scraper", "ret", "call", page)
                                   EXCEPT !.links = locals[page].links])
            /\ UNCHANGED recorded
       ELSE /\ stack' = Push(t, Frame("scraper", "acquire", "call", page))
            /\ recorded' = recorded \cup {page}
    /\ UNCHANGED <<analytics, _report_written, _lock, phase, files, applied,
                   signals, flushes, probe>>

\* record_page entering its critical section without waiting for the lock
RecordAcquireUnlocked(t) ==
    /\ Running(t, "scraper", "acquire")
    /\ _lock' = t
    /\ stack' = Goto(t, "check")
    /\ UNCHANGED <<analytics, _report_written, phase, files, applied, recorded,
                   counters, probe>>

\* record_page line 179: with _lock
RecordAcquire(t) ==
    /\ Running(t, "scraper", "acquire")
    /\ _lock = "free"
    /\ _lock' = t
    /\ stack' = Goto(t, "check")
    /\ UNCHANGED <<analytics, _report_written, phase, files, applied, recorded,
                   counters, probe>>

\* record_page without the membership test of lines 181-182
RecordCheckSkipped(t) ==
    /\ Running(t, "scraper", "check")
    /\ stack' = Goto(t, "add")
    /\ UNCHANGED <<analytics, _report_written, _lock, phase, files, applied, recorded,
                   counters, probe>>

\* record_page lines 181-182: the URL is known, return (and scraper lines 81-82)
RecordCheck(t) ==
    /\ Running(t, "scraper", "check")
    /\ IF locals[Top(t).page].defragged_url \in unique_pages
       THEN /\ _lock' = "free"
            /\ stack' = SetTop(t, [Top(t) EXCEPT !.pc = "ret",
                                                 !.links = locals[Top(t).page].links])
       ELSE /\ stack' = Goto(t, "add")
            /\ UNCHANGED _lock
    /\ UNCHANGED <<analytics, _report_written, phase, files, applied, recorded,
                   counters, probe>>

\* record_page line 185
RecordAdd(t) ==
    /\ Running(t, "scraper", "add")
    /\ unique_pages' = unique_pages \cup {locals[Top(t).page].defragged_url}
    /\ applied' = Append(applied, Top(t).page)
    /\ stack' = Goto(t, "subdomain")
    /\ UNCHANGED <<longest_page_url, longest_page_word_count, word_frequency,
                   subdomain_pages, _report_written, _lock, phase, files, recorded,
                   counters, probe>>

\* subdomain_pages[subdomain].add(url), the set created when the host is new
AddUnder(pages, subdomain, url) ==
    [h \in DOMAIN pages \cup {subdomain} |->
        IF h = subdomain
        THEN (IF h \in DOMAIN pages THEN pages[h] ELSE {}) \cup {url}
        ELSE pages[h]]

\* record_page lines 189-192 on the dict
TrackSubdomain(pages, subdomain, url) ==
    IF subdomain = "" THEN pages ELSE AddUnder(pages, subdomain, url)

\* the subdomain tracked under the URL as fetched, fragment included
RecordSubdomainRaw(t) ==
    /\ Running(t, "scraper", "subdomain")
    /\ subdomain_pages' = TrackSubdomain(subdomain_pages, locals[Top(t).page].subdomain,
                                         Top(t).page.url)
    /\ stack' = Goto(t, "count")
    /\ UNCHANGED <<unique_pages, longest_page_url, longest_page_word_count,
                   word_frequency, _report_written, _lock, phase, files, applied,
                   recorded, counters, probe>>

\* record_page lines 188-192
RecordSubdomain(t) ==
    /\ Running(t, "scraper", "subdomain")
    /\ subdomain_pages' = TrackSubdomain(subdomain_pages, locals[Top(t).page].subdomain,
                                         locals[Top(t).page].defragged_url)
    /\ stack' = Goto(t, "count")
    /\ UNCHANGED <<unique_pages, longest_page_url, longest_page_word_count,
                   word_frequency, _report_written, _lock, phase, files, applied,
                   recorded, counters, probe>>

\* the longest page replaced on a tie as well: >= for > in line 202
RecordCountTies(t) ==
    /\ Running(t, "scraper", "count")
    /\ IF locals[Top(t).page].word_count >= longest_page_word_count
       THEN /\ longest_page_word_count' = locals[Top(t).page].word_count
            /\ stack' = Goto(t, "url")
       ELSE /\ stack' = Goto(t, "update")
            /\ UNCHANGED longest_page_word_count
    /\ UNCHANGED <<unique_pages, longest_page_url, word_frequency, subdomain_pages,
                   _report_written, _lock, phase, files, applied, recorded, counters,
                   probe>>

\* record_page lines 196-203
RecordCount(t) ==
    /\ Running(t, "scraper", "count")
    /\ IF locals[Top(t).page].word_count > longest_page_word_count
       THEN /\ longest_page_word_count' = locals[Top(t).page].word_count
            /\ stack' = Goto(t, "url")
       ELSE /\ stack' = Goto(t, "update")
            /\ UNCHANGED longest_page_word_count
    /\ UNCHANGED <<unique_pages, longest_page_url, word_frequency, subdomain_pages,
                   _report_written, _lock, phase, files, applied, recorded, counters,
                   probe>>

\* record_page line 204
RecordUrl(t) ==
    /\ Running(t, "scraper", "url")
    /\ longest_page_url' = locals[Top(t).page].defragged_url
    /\ stack' = Goto(t, "update")
    /\ UNCHANGED <<unique_pages, longest_page_word_count, word_frequency,
                   subdomain_pages, _report_written, _lock, phase, files, applied,
                   recorded, counters, probe>>

\* record_page lines 207-209, the end of the with block, and scraper lines 81-82
RecordUpdate(t) ==
    /\ Running(t, "scraper", "update")
    /\ word_frequency' = CounterUpdate(word_frequency, locals[Top(t).page].frequencies)
    /\ _lock' = "free"
    /\ stack' = SetTop(t, [Top(t) EXCEPT !.pc = "ret", !.links = locals[Top(t).page].links])
    /\ UNCHANGED <<unique_pages, longest_page_url, longest_page_word_count,
                   subdomain_pages, _report_written, phase, files, applied, recorded,
                   counters, probe>>

\* scraper returns its list to the caller
ScraperReturn(t) ==
    /\ Running(t, "scraper", "ret")
    /\ stack' = Pop(t)
    /\ UNCHANGED <<analytics, _report_written, _lock, phase, files, applied, recorded,
                   counters, probe>>

(***************************************************************************)
(* save_report() and its callers: an explicit call from a worker, the      *)
(* atexit handler and the signal handler.                                  *)
(***************************************************************************)
\* save_report returns to its caller: a worker's call site, _exit_handler (the
\* last thing the interpreter runs) or _signal_handler (which goes on to sys.exit)
Returned(t) ==
    IF Top(t).via = "signal"
    THEN /\ stack' = SetTop(t, [Top(t) EXCEPT !.fn = "_signal_handler", !.pc = "sys_exit"])
         /\ UNCHANGED phase
    ELSE /\ stack' = Pop(t)
         /\ phase' = IF Top(t).via = "exit" THEN "done" ELSE phase

\* an explicit end-of-crawl call of analytics.save_report() from a worker
SaveCall(t) ==
    /\ phase # "done"
    /\ stack[t] = <<>>
    /\ flushes < MaxFlushes
    /\ flushes' = flushes + 1
    /\ stack' = Push(t, Frame("save_report", "guard", "call", NoPage))
    /\ UNCHANGED <<analytics, _report_written, _lock, phase, files, applied, recorded,
                   calls, signals, probe>>

\* the main thread ends: the interpreter runs _exit_handler (lines 304-307)
MainExit ==
    /\ phase = "run"
    /\ stack["main"] = <<>>
    /\ phase' = "atexit"
    /\ stack' = Push("main", Frame("save_report", "guard", "exit", NoPage))
    /\ UNCHANGED <<analytics, _report_written, _lock, files, applied, recorded,
                   counters, probe>>

\* SIGINT or SIGTERM: the interpreter runs _signal_handler (lines 310-313) in the
\* main thread, on top of the frame the main thread is executing
Signal ==
    /\ phase # "done"
    /\ signals < MaxSignals
    /\ signals' = signals + 1
    /\ stack' = Push("main", Frame("save_report", "guard", "signal", NoPage))
    /\ UNCHANGED <<analytics, _report_written, _lock, phase, files, applied, recorded,
                   calls, flushes, probe>>

\* save_report lines 224-225
SaveGuard(t) ==
    /\ Running(t, "save_report", "guard")
    /\ IF _report_written
       THEN Returned(t)
       ELSE stack' = Goto(t, "set") /\ UNCHANGED phase
    /\ UNCHANGED <<analytics, _report_written, _lock, files, applied, recorded,
                   counters, probe>>

\* save_report line 227
SaveSet(t) ==
    /\ Running(t, "save_report", "set")
    /\ _report_written' = TRUE
    /\ stack' = Goto(t, "acquire")
    /\ UNCHANGED <<analytics, _lock, phase, files, applied, recorded, counters, probe>>

\* save_report generating the report without waiting for the lock
SaveAcquireUnlocked(t) ==
    /\ Running(t, "save_report", "acquire")
    /\ _lock' = t
    /\ stack' = Goto(t, "summary")
    /\ UNCHANGED <<analytics, _report_written, phase, files, applied, recorded,
                   counters, probe>>

\* save_report lines 230-233: with _lock
SaveAcquire(t) ==
    /\ Running(t, "save_report", "acquire")
    /\ _lock = "free"
    /\ _lock' = t
    /\ stack' = Goto(t, "summary")
    /\ UNCHANGED <<analytics, _report_written, phase, files, applied, recorded,
                   counters, probe>>

\* open(path, "w") ... the writes ... close
Write(artifact) ==
    [files EXCEPT ![artifact] = [opens |-> @.opens + 1, content |-> Report(artifact, State)]]

\* save_report lines 235-269
SaveSummary(t) ==
    /\ Running(t, "save_report", "summary")
    /\ files' = Write("report_summary.txt")
    /\ stack' = Goto(t, "top50")
    /\ UNCHANGED <<analytics, _report_written, _lock, phase, applied, recorded,
                   counters, probe>>

\* save_report lines 272-279
SaveTop50(t) ==
    /\ Running(t, "save_report", "top50")
    /\ files' = Write("top50_words.csv")
    /\ stack' = Goto(t, "subdomains")
    /\ UNCHANGED <<analytics, _report_written, _lock, phase, applied, recorded,
                   counters, probe>>

\* save_report lines 282-299 and the end of the with block
SaveSubdomains(t) ==
    /\ Running(t, "save_report", "subdomains")
    /\ files' = Write("subdomains.csv")
    /\ _lock' = "free"
    /\ Returned(t)
    /\ UNCHANGED <<analytics, _report_written, applied, recorded, counters, probe>>

\* the frames of a thread that are inside a with _lock block
HoldsLock(f) ==
    \/ f.fn = "scraper" /\ f.pc \in {"check", "add", "subdomain", "count", "url", "update"}
    \/ f.fn = "save_report" /\ f.pc \in {"summary", "top50", "subdomains"}

\* the frames of record_page about to extract the text and count its words (lines
\* 196-200) or to tokenize it for the frequencies (lines 207-208)
Tokenizes(f) == f.fn = "scraper" /\ f.pc \in {"count", "update"}

\* _signal_handler lines 315-316: sys.exit(0) raises SystemExit in the main thread.
\* It unwinds every frame of the main thread (a with block it leaves releases the
\* lock); the interpreter then runs the exit handlers, unless they were running.
SysExit ==
    /\ Running("main", "_signal_handler", "sys_exit")
    /\ _lock' = IF \E i \in 1..Depth("main") : HoldsLock(stack["main"][i])
                THEN "free" ELSE _lock
    /\ IF phase = "run"
       THEN /\ phase' = "atexit"
            /\ stack' = [stack EXCEPT !["main"] =
                            <<Frame("save_report", "guard", "exit", NoPage)>>]
       ELSE /\ phase' = "done"
            /\ stack' = [stack EXCEPT !["main"] = <<>>]
    /\ UNCHANGED <<analytics, _report_written, files, applied, recorded, counters, probe>>

(***************************************************************************)
(* Spec: worker threads call scraper() and may call save_report(); the     *)
(* main thread waits for them, exits, and takes the signals.               *)
(***************************************************************************)
\* the steps of scraper() and, inside it, record_page() in thread t
RecordStep(t) ==
    \/ RecordAcquire(t)
    \/ RecordCheck(t)
    \/ RecordAdd(t)
    \/ RecordSubdomain(t)
    \/ RecordCount(t)
    \/ RecordUrl(t)
    \/ RecordUpdate(t)
    \/ ScraperReturn(t)

\* the steps of save_report() in thread t
SaveStep(t) ==
    \/ SaveGuard(t)
    \/ SaveSet(t)
    \/ SaveAcquire(t)
    \/ SaveSummary(t)
    \/ SaveTop50(t)
    \/ SaveSubdomains(t)

Next ==
    \/ \E t \in Workers : \E page \in Pages : ScraperCall(t, page)
    \/ \E t \in Workers : SaveCall(t)
    \/ \E t \in Workers : RecordStep(t)
    \/ \E t \in Threads : SaveStep(t)
    \/ MainExit
    \/ Signal
    \/ SysExit

Spec == Init /\ [][Next]_vars

(***************************************************************************)
(* SpecCrawl: the crawl without signals and explicit flushes.  The workers *)
(* are daemon threads: the main thread may exit, and the exit handler      *)
(* flush, while they are still in scraper().                               *)
(***************************************************************************)
NextCrawl ==
    \/ \E t \in Workers : \E page \in Pages : ScraperCall(t, page)
    \/ \E t \in Workers : RecordStep(t)
    \/ MainExit
    \/ SaveStep("main")

SpecCrawl == Init /\ [][NextCrawl]_vars

(***************************************************************************)
(* SpecSeq: one worker scrapes one page after the other.  Its pages cover  *)
(* each way the gate of scraper() turns a page down, and URLs that differ  *)
(* in their fragment only.                                                 *)
(***************************************************************************)
NextSeq ==
    \/ \E page \in SeqPages : ScraperCall("w1", page)
    \/ RecordStep("w1")

SpecSeq == Init /\ [][NextSeq]_vars

(***************************************************************************)
(* SpecReport: one worker scrapes the pages of ReportPages, and the main   *)
(* thread exits and flushes at some point of the crawl.                    *)
(***************************************************************************)
NextReport ==
    \/ \E page \in ReportPages : ScraperCall("w1", page)
    \/ RecordStep("w1")
    \/ MainExit
    \/ SaveStep("main")

SpecReport == Init /\ [][NextReport]_vars

(***************************************************************************)
(* SpecMain: scraper() is called in the main thread as well as in a        *)
(* worker, so that a signal can interrupt the main thread anywhere inside  *)
(* record_page(); the worker may flush on its own.  SpecMainFair adds that *)
(* a thread that can take a step is scheduled in the end; a signal is the  *)
(* environment's and is never owed.                                        *)
(***************************************************************************)
MainPages == {PageA, PageB}

\* the steps the main thread takes by itself: the frame on top of its stack
MainStep ==
    \/ RecordStep("main")
    \/ SaveStep("main")
    \/ SysExit

NextMain ==
    \/ \E t \in {"main", "w1"} : \E page \in MainPages : ScraperCall(t, page)
    \/ SaveCall("w1")
    \/ RecordStep("w1")
    \/ SaveStep("w1")
    \/ MainStep
    \/ MainExit
    \/ Signal

SpecMain == Init /\ [][NextMain]_vars

SpecMainFair ==
    /\ SpecMain
    /\ WF_vars(MainStep)
    /\ WF_vars(RecordStep("w1") \/ SaveStep("w1"))

(***************************************************************************)
(* SpecPure: is_valid and extract_next_links called on their own, the      *)
(* first on each URL of a family built from heads, hosts, paths and tails, *)
(* the second on pages whose hrefs urljoin and urlparse raise on.          *)
(***************************************************************************)
UrlHeads == {"http://", "https://", "HTTP://", "ftp://", "//"}

UrlHosts ==
    {"www.ics.uci.edu", "ics.uci.edu", "vision.ICS.uci.edu", "cs.uci.edu",
     "informatics.uci.edu", "stat.uci.edu", "archive.ics.uci.edu", "physics.uci.edu",
     "economics.uci.edu", "www.notuci.edu", "google.com", "ics.uci.edu.evil.com",
     "www.ics.uci.edu@evil.com", "user@www.ics.uci.edu:8080", "[bad", ""}

UrlPaths ==
    {"", "/", "/foo/bar", "/a/b/a/b/a/b", "/a/a/a/", "/a/b/a/b/a", "/x/a/y/a/z/a/k",
     "/calendar/2024-05", "/paper.PDF"}

UrlTails == {"", "#sec", "?id=1", "?action=edit#top"}

Urls == {h \o n \o p \o t : h \in UrlHeads, n \in UrlHosts, p \in UrlPaths, t \in UrlTails}

\* the arguments of the call a behaviour of SpecPure makes
InitPure ==
    /\ unique_pages = {}
    /\ longest_page_url = ""
    /\ longest_page_word_count = 0
    /\ word_frequency = <<>>
    /\ subdomain_pages = [h \in {} |-> {}]
    /\ _report_written = FALSE
    /\ _lock = "free"
    /\ stack = [t \in Threads |-> <<>>]
    /\ phase = "run"
    /\ files = [a \in Artifacts |-> [opens |-> 0, content |-> <<>>]]
    /\ applied = <<>>
    /\ recorded = {}
    /\ calls = 0
    /\ signals = 0
    /\ flushes = 0
    /\ probe \in {<<"is_valid", url>> : url \in Urls}
                 \cup {<<"extract_next_links", page>> : page \in LinkPages}

\* the call of is_valid(url)
IsValidCall ==
    /\ Len(probe) = 2
    /\ probe[1] = "is_valid"
    /\ probe' = Append(probe, is_valid(probe[2]))
    /\ UNCHANGED <<analytics, _report_written, _lock, stack, phase, files, applied,
                   recorded, counters>>

\* the call of extract_next_links(url, resp)
ExtractCall ==
    /\ Len(probe) = 2
    /\ probe[1] = "extract_next_links"
    /\ probe' = Append(probe, extract_next_links(probe[2].url, probe[2]))
    /\ UNCHANGED <<analytics, _report_written, _lock, stack, phase, files, applied,
                   recorded, counters>>

NextPure == IsValidCall \/ ExtractCall

SpecPure == InitPure /\ [][NextPure]_vars

(***************************************************************************)
(* record_page run from its first line to its last by one thread, as a     *)
(* function on the analytics state: the reference for what interleaved     *)
(* calls may produce.                                                      *)
(***************************************************************************)
EmptyState ==
    [unique_pages |-> {},
     longest_page_url |-> "",
     longest_page_word_count |-> 0,
     word_frequency |-> <<>>,
     subdomain_pages |-> [h \in {} |-> {}]]

\* record_page lines 185-209, for a URL that is new
Added(s, v) ==
    [unique_pages |-> s.unique_pages \cup {v.defragged_url},
     longest_page_url |-> IF v.word_count > s.longest_page_word_count
                          THEN v.defragged_url ELSE s.longest_page_url,
     longest_page_word_count |-> IF v.word_count > s.longest_page_word_count
                                 THEN v.word_count ELSE s.longest_page_word_count,
     word_frequency |-> CounterUpdate(s.word_frequency, v.frequencies),
     subdomain_pages |-> TrackSubdomain(s.subdomain_pages, v.subdomain, v.defragged_url)]

\* record_page(url, resp) on the state s
record_page(s, page) ==
    IF RecordRejects(page) \/ locals[page].defragged_url \in s.unique_pages THEN s
    ELSE Added(s, locals[page])

\* the state after record_page for q[1], ..., q[k], one call after the other
RECURSIVE Sequential(_, _)
Sequential(q, k) == IF k = 0 THEN EmptyState ELSE record_page(Sequential(q, k - 1), q[k])

\* the orders in which the calls for the pages of S can run
Orders(S) ==
    {q \in [1..Cardinality(S) -> S] : \A i, j \in 1..Cardinality(S) : q[i] = q[j] => i = j}

\* the frames of all threads
Frames == UNION {{stack[t][i] : i \in 1..Len(stack[t])} : t \in Threads}

\* every record_page call made so far has returned
Quiescent == \A f \in Frames : f.fn = "scraper" => f.pc = "ret"

(***************************************************************************)
(* The flush: save_report and its triggers.                                *)
(***************************************************************************)
\* C1: when save_report is invoked from two call sites at once, each of the three
\* artifacts is written once and no more, and _report_written, once true, stays true.
C1_WrittenOnce ==
    /\ [](\A a \in Artifacts : files[a].opens <= 1)
    /\ [][_report_written => _report_written']_vars

\* C2: with the exit handler and the signal handler as the only flush triggers, once
\* the process has ended one save_report call has written, and it has written all
\* three artifacts.
C2_ShutdownWritesAll ==
    (phase = "done" /\ flushes = 0) => \A a \in Artifacts : files[a].opens = 1

(***************************************************************************)
(* The aggregator under concurrent record_page calls.                      *)
(***************************************************************************)
\* the words page adds to word_frequency, with their counts
PageWords(page) == locals[page].frequencies

\* the sum of the counts of w over the pages of q
RECURSIVE WordTotal(_, _)
WordTotal(q, w) ==
    IF q = <<>> THEN 0 ELSE Count(PageWords(Head(q)), w) + WordTotal(Tail(q), w)

\* no two pages of q have the same normalized URL
DistinctUrls(q) ==
    \A i, j \in 1..Len(q) : locals[q[i]].defragged_url = locals[q[j]].defragged_url => i = j

\* C3: once every record_page call has returned, unique_pages is the set of the
\* normalized URLs recorded, the state is the one some sequential execution of the
\* calls leaves, and each word's count is its sum over one call per URL, the first
\* applied.
C3_NoLostUpdate ==
    Quiescent =>
        /\ unique_pages = {locals[page].defragged_url : page \in recorded}
        /\ \E q \in Orders(recorded) : State = Sequential(q, Cardinality(recorded))
        /\ DistinctUrls(applied)
        /\ \A page \in recorded : \E i \in 1..Len(applied) :
               locals[applied[i]].defragged_url = locals[page].defragged_url
        /\ \A w \in CounterKeys(word_frequency) \cup UNION {CounterKeys(PageWords(page)) : page \in recorded} :
               Count(word_frequency, w) = WordTotal(applied, w)

\* two workers have each recorded a page, and a word of both pages has both counts
C3_Witness ==
    /\ Quiescent
    /\ \A t \in Workers : Running(t, "scraper", "ret")
    /\ {applied[i] : i \in 1..Len(applied)} = {PageA, PageB}
    /\ Count(word_frequency, "research") = 33

\* thread t is in a record_page call for a URL that is in unique_pages already
Second(t) ==
    /\ stack[t] # <<>>
    /\ Top(t).fn = "scraper"
    /\ Top(t).pc \in {"acquire", "check"}
    /\ locals[Top(t).page].defragged_url \in unique_pages

\* C4: a record_page call for a URL whose normalized form is in unique_pages already
\* changes none of the five analytics variables, whatever its text: it returns from
\* the membership test, and no URL is applied twice.
C4_Idempotent ==
    /\ [][\A t \in Workers :
              (Second(t) /\ stack'[t] # stack[t]) =>
                  /\ UNCHANGED <<analytics, applied>>
                  /\ stack'[t][Len(stack'[t])].pc \in {"check", "ret"}]_vars
    /\ [](DistinctUrls(applied))

\* a call with the URL of PageA and another text has returned: the state is PageA's
C4_Witness ==
    /\ applied = <<PageA>>
    /\ \E t \in Workers : Running(t, "scraper", "ret") /\ Top(t).page = PageA2
    /\ State = Sequential(<<PageA>>, 1)

\* C5: what save_report has written to an artifact is the report of a state in which
\* each record_page call is applied as a whole or not at all: the state after the
\* first k applied calls, for some k.
C5_FlushSeesWholeRecords ==
    \A a \in Artifacts :
        files[a].opens > 0 =>
            \E k \in 0..Len(applied) : files[a].content = Report(a, Sequential(applied, k))

\* the flush holds the lock and has written the summary, with one page applied,
\* while a worker waits to record another
C5_Witness ==
    /\ _lock = "main"
    /\ files["report_summary.txt"].opens = 1
    /\ files["report_summary.txt"].content[1] = 1
    /\ \E f \in Frames : f.fn = "scraper" /\ f.pc = "acquire"

\* a record_page call is between its first and its last update of the state
Updating == \E f \in Frames : f.fn = "scraper" /\ f.pc \in {"subdomain", "count", "url", "update"}

WordCount(page) == locals[page].word_count

\* the largest word count of the pages of q (0 for no page)
MaxWords(q) == Max({0} \cup {WordCount(q[i]) : i \in 1..Len(q)})

\* the normalized URL of the first page of q with n words ("" when there is none)
FirstWith(q, n) ==
    IF \E i \in 1..Len(q) : WordCount(q[i]) = n
    THEN locals[q[Min({i \in 1..Len(q) : WordCount(q[i]) = n})]].defragged_url
    ELSE ""

\* C6 as stated: longest_page_word_count never decreases and is the largest word
\* count of the pages recorded, and longest_page_url is the first recorded URL with
\* that count.
C6_LongestIsFirstMax ==
    /\ [][longest_page_word_count' >= longest_page_word_count]_vars
    /\ [](~Updating =>
            /\ longest_page_word_count = MaxWords(applied)
            /\ longest_page_url = FirstWith(applied, MaxWords(applied)))

\* C6: longest_page_word_count never decreases and is the largest word count of the
\* pages recorded; longest_page_url is the first recorded URL with that count when
\* the count is positive, and stays empty while it is 0.
C6_LongestIsFirstPositiveMax ==
    /\ [][longest_page_word_count' >= longest_page_word_count]_vars
    /\ [](~Updating =>
            /\ longest_page_word_count = MaxWords(applied)
            /\ longest_page_url = IF MaxWords(applied) > 0
                                  THEN FirstWith(applied, MaxWords(applied)) ELSE "")

\* PageB, with as many words as PageA, was recorded after it: the URL is PageA's
C6_Witness ==
    /\ ~Updating
    /\ applied = <<PageA, PageB>>
    /\ WordCount(PageA) = WordCount(PageB)
    /\ longest_page_url = "http://www.ics.uci.edu/a"

\* C7: no step of record_page or save_report removes a URL from unique_pages, a host
\* or a URL from subdomain_pages, or lowers a count of word_frequency.
C7_StateOnlyGrows ==
    [][/\ unique_pages \subseteq unique_pages'
       /\ \A h \in DOMAIN subdomain_pages :
              h \in DOMAIN subdomain_pages' /\ subdomain_pages[h] \subseteq subdomain_pages'[h]
       /\ \A w \in CounterKeys(word_frequency) :
              Count(word_frequency', w) >= Count(word_frequency, w)]_vars

\* two pages are recorded, a count was raised twice, and save_report has run
C7_Witness ==
    /\ Cardinality(unique_pages) = 2
    /\ Count(word_frequency, "research") = 33
    /\ files["subdomains.csv"].opens = 1

\* the sum of |pages[h]| over the hosts h
RECURSIVE SumOfSizes(_, _)
SumOfSizes(pages, hosts) ==
    IF hosts = <<>> THEN 0
    ELSE Cardinality(pages[Head(hosts)]) + SumOfSizes(pages, Tail(hosts))

\* C8: the sizes of the sets subdomain_pages[h] sum to |unique_pages| at most: a URL
\* under a host is in unique_pages and under no other host.
C8_SubdomainsWithinUnique ==
    /\ SumOfSizes(subdomain_pages, Sorted(DOMAIN subdomain_pages)) <= Cardinality(unique_pages)
    /\ \A h \in DOMAIN subdomain_pages : \A url \in subdomain_pages[h] :
           /\ url \in unique_pages
           /\ \A g \in DOMAIN subdomain_pages : url \in subdomain_pages[g] => g = h

\* two pages are recorded, one of them under a host outside uci.edu
C8_Witness ==
    /\ unique_pages = {"http://www.ics.uci.edu/a", "http://www.example.com/c"}
    /\ SumOfSizes(subdomain_pages, Sorted(DOMAIN subdomain_pages)) = 1
    /\ ~Updating

(***************************************************************************)
(* The quality gate and the fragment of a URL.                             *)
(***************************************************************************)
\* the number of words of the text of page outside the elements the gate strips
VisibleWords(page) == SumReps(VisibleRuns(page.nodes, NON_CONTENT_ELEMENTS))

\* a page the quality gate is to turn down
TurnedDown(page) ==
    \/ page.status # 200
    \/ ~page.raw \/ page.len = 0
    \/ page.len < MIN_CONTENT_LENGTH
    \/ page.len > MAX_CONTENT_LENGTH
    \/ ~page.ok
    \/ VisibleWords(page) < MIN_WORD_COUNT

\* C9: a page the quality gate turns down reaches neither record_page nor
\* extract_next_links: its scraper call is at the return of an empty list, and the
\* call has left the five analytics variables as they were.
C9_GateKeepsOut ==
    /\ [](\A f \in Frames :
              (f.fn = "scraper" /\ TurnedDown(f.page)) =>
                  /\ f.pc = "ret"
                  /\ f.links = <<>>
                  /\ f.page \notin recorded
                  /\ \A i \in 1..Len(applied) : applied[i] # f.page)
    /\ [][\A t \in Workers :
              (stack[t] = <<>> /\ stack'[t] # <<>> /\ TurnedDown(stack'[t][1].page)) =>
                  UNCHANGED analytics]_vars

\* the 200-byte page with 30 words was scraped after PageA was recorded
C9_Witness ==
    /\ Running("w1", "scraper", "ret")
    /\ Top("w1").page = PageD
    /\ Top("w1").links = <<>>
    /\ applied = <<PageA>>
    /\ State = Sequential(<<PageA>>, 1)

\* url without its fragment
StripFragment(url) == BeforeFirst(url, "#")

\* C10: is_valid gives one answer for URLs that differ in their fragment only, and
\* of the pages recorded under such URLs one, the first, is applied: they add one
\* entry to unique_pages.
C10_FragmentsAreOneEntity ==
    /\ \A p, q \in recorded :
           StripFragment(p.url) = StripFragment(q.url) => is_valid(p.url) = is_valid(q.url)
    /\ \A i, j \in 1..Len(applied) :
           StripFragment(applied[i].url) = StripFragment(applied[j].url) => i = j
    /\ Quiescent =>
           Cardinality(unique_pages) = Cardinality({StripFragment(p.url) : p \in recorded})

(***************************************************************************)
(* is_valid and extract_next_links.                                        *)
(***************************************************************************)
\* is_valid(url) has returned
Validated == Len(probe) = 3 /\ probe[1] = "is_valid"

\* extract_next_links has returned
Extracted == Len(probe) = 3 /\ probe[1] = "extract_next_links"

Departments == {"ics", "cs", "informatics", "stat"}

\* the labels of host end in <department>.uci.edu
UnderDepartment(labels) ==
    /\ Len(labels) >= 3
    /\ labels[Len(labels)] = "edu"
    /\ labels[Len(labels) - 1] = "uci"
    /\ labels[Len(labels) - 2] \in Departments

\* url has the scheme http or https and a host that is a department domain or a
\* subdomain of one
InScope(url) ==
    /\ urlparse(url).scheme \in {"http", "https"}
    /\ hostname(urlparse(url)) # ""
    /\ UnderDepartment(Split(hostname(urlparse(url)), "."))

\* C11: a URL is_valid accepts has the scheme http or https and a host that is
\* ics.uci.edu, cs.uci.edu, informatics.uci.edu or stat.uci.edu or a subdomain of one
\* of them.
C11_AcceptedIsInScope == (Validated /\ probe[3] = "True") => InScope(probe[2])

\* a URL under a subdomain, with upper-case letters in the host, is accepted
C11_Witness ==
    /\ Validated
    /\ probe[2] = "https://vision.ICS.uci.edu/foo/bar#sec"
    /\ probe[3] = "True"
    /\ InScope(probe[2])

\* the candidate URLs of the example with the results the spec expects
Examples ==
    {<<"http://www.ics.uci.edu/foo/bar#sec", "True">>,
     <<"http://www.ics.uci.edu/a/b/a/b/a/b", "False">>,
     <<"http://www.ics.uci.edu/calendar/2024-05", "False">>,
     <<"http://google.com/", "False">>,
     <<"http://archive.ics.uci.edu/", "False">>}

\* C12: is_valid returns true, false, false, false, false for the five candidate
\* URLs of the example.
C12_Examples ==
    \A e \in Examples : (Validated /\ probe[2] = e[1]) => probe[3] = e[2]

\* C13: is_valid returns False on a URL that does not parse: a call with a str ends
\* with True or False, never with an exception.
C13_FailsClosed == Validated => probe[3] \in {"True", "False"}

\* urljoin or urlparse raises on href, which the loop does not skip
FailsOn(url, href) ==
    /\ ~SkipHref(Strip(href))
    /\ \/ urljoin(url, Split(Strip(href), "#")[1]) = "ValueError"
       \/ urlparse(urljoin(url, Split(Strip(href), "#")[1])).err

\* extract_next_links parses the page, and the parse of the HTML or of an href fails
Fails(page) ==
    /\ page.status = 200 /\ page.raw /\ page.len > 0
    /\ ~page.ok \/ \E i \in 1..Len(page.hrefs) : FailsOn(page.url, page.hrefs[i])

\* C14: when the parse of the page or of one of its hrefs fails, extract_next_links
\* returns the empty list, not the links found before the failure.
C14_FailureYieldsEmpty == (Extracted /\ Fails(probe[2])) => probe[3] = <<>>

\* some directory segment occurs three times or more in path
Repeats(segments) ==
    \E i \in 1..Len(segments) :
        /\ segments[i] # ""
        /\ Cardinality({j \in 1..Len(segments) : segments[j] = segments[i]}) >= 3

\* C17: is_valid rejects every in-scope URL whose path has a directory segment that
\* occurs three times or more, wherever the occurrences lie.
C17_RepeatedSegmentRejected ==
    (Validated /\ InScope(probe[2]) /\ Repeats(Split(urlparse(probe[2]).path, "/")))
        => probe[3] = "False"

(***************************************************************************)
(* The report, the lock, the hosts and the words.                          *)
(***************************************************************************)
\* the place of the word w in the Counter c
Place(c, w) == CHOOSE i \in 1..Len(c) : c[i][1] = w

\* top lists the n items of c with the largest counts, the larger count first and,
\* of two equal counts, the word first that was inserted first
IsRanking(c, top, n) ==
    /\ Len(top) = Min({n, Len(c)})
    /\ \A i \in 1..Len(top) : top[i][1] \in CounterKeys(c) /\ top[i][2] = Count(c, top[i][1])
    /\ \A i, j \in 1..Len(top) :
           i < j => \/ top[i][2] > top[j][2]
                    \/ top[i][2] = top[j][2] /\ Place(c, top[i][1]) < Place(c, top[j][1])
    /\ \A k \in 1..Len(c) :
           (\A i \in 1..Len(top) : top[i][1] # c[k][1]) =>
               \/ c[k][2] < top[Len(top)][2]
               \/ c[k][2] = top[Len(top)][2] /\ Place(c, top[Len(top)][1]) < k

\* rows lists each host of pages once, in lexicographic order, with the number of
\* its URLs
IsListing(pages, rows) ==
    /\ {rows[i][1] : i \in 1..Len(rows)} = DOMAIN pages
    /\ \A i \in 1..Len(rows) : rows[i][2] = Cardinality(pages[rows[i][1]])
    /\ \A i, j \in 1..Len(rows) : i < j => StrLess(rows[i][1], rows[j][1])

\* the step writes the artifact
Writes(artifact) == files'[artifact].opens > files[artifact].opens

\* C15: the summary save_report writes lists the 50 most frequent words of the
\* flushed state by descending count, ties in first-encountered order, and the hosts
\* in lexicographic order with their page counts; the two CSV files it writes hold
\* the entries of the summary in the same order.
C15_ReportIsOrdered ==
    [][/\ Writes("report_summary.txt") =>
              /\ IsRanking(word_frequency, files'["report_summary.txt"].content[4], 50)
              /\ IsListing(subdomain_pages, files'["report_summary.txt"].content[6])
       /\ Writes("top50_words.csv") =>
              files'["top50_words.csv"].content = files["report_summary.txt"].content[4]
       /\ Writes("subdomains.csv") =>
              files'["subdomains.csv"].content = files["report_summary.txt"].content[6]]_vars

\* the report is written for a state with more than 50 words, equal counts among
\* them, and two hosts
C15_Witness ==
    /\ \A a \in Artifacts : files[a].opens = 1
    /\ Len(word_frequency) > 50
    /\ Len(files["top50_words.csv"].content) = 50
    /\ files["top50_words.csv"].content[50][2] = files["top50_words.csv"].content[49][2]
    /\ Len(files["subdomains.csv"].content) = 2

\* C16: record_page extracts and tokenizes the text of a page before it acquires the
\* lock: no thread is about to parse or tokenize while it holds the lock.
C16_TokenizesOutsideLock ==
    \A t \in Threads : \A i \in 1..Len(stack[t]) : Tokenizes(stack[t][i]) => _lock # t

\* the labels of a host end in uci.edu
UnderRoot(labels) ==
    /\ Len(labels) >= 2
    /\ labels[Len(labels)] = "edu"
    /\ labels[Len(labels) - 1] = "uci"

\* C18: every key of subdomain_pages is uci.edu or a host under it, and every URL
\* stored under a host has that host.
C18_SubdomainKeysUnderRoot ==
    \A h \in DOMAIN subdomain_pages :
        /\ UnderRoot(Split(h, "."))
        /\ \A url \in subdomain_pages[h] : hostname(urlparse(url)) = h

\* w is lower-case alphabetic, of four letters or more, and not a stopword
IsWord(w) ==
    /\ Len(w) >= 4
    /\ \A i \in 1..Len(w) : Char(w, i) \in LowerLetters
    /\ w \notin stopwords

\* the tokens of the text of each page, as runs
PageTokens ==
    [page \in Pages \cup SeqPages \cup ReportPages |-> tokenize(get_visible_text(page))]

\* the number of occurrences of the token w in the texts of the pages of q
RECURSIVE Occurrences(_, _)
Occurrences(q, w) ==
    IF q = <<>> THEN 0
    ELSE SumReps(SelectSeq(PageTokens[Head(q)], LAMBDA r : r[1] = w)) + Occurrences(Tail(q), w)

IsAbsoluteLink(link) ==
    /\ urlparse(link).scheme \in {"http", "https"}
    /\ urlparse(link).netloc # ""
    /\ ~Contains(link, "#")

\* C20: the list scraper returns for a page it accepted holds absolute http/https
\* URLs without fragment that is_valid accepts, and it is the list of the links
\* extract_next_links gives for the page that is_valid accepts, in their order.
C20_ReturnsValidLinks ==
    \A f \in Frames :
        (f.fn = "scraper" /\ f.pc = "ret" /\ ~GateRejects(f.page)) =>
            /\ \A i \in 1..Len(f.links) :
                   IsAbsoluteLink(f.links[i]) /\ is_valid(f.links[i]) = "True"
            /\ f.links = SelectSeq(extract_next_links(f.page.url, f.page),
                                   LAMBDA link : is_valid(link) = "True")

\* scraper returns two of the four hrefs of PageA: the mailto link is skipped and the
\* calendar link is not valid
C20_Witness ==
    \E f \in Frames :
        /\ f.fn = "scraper" /\ f.pc = "ret" /\ f.page = PageA
        /\ f.links = <<"http://www.ics.uci.edu/b", "http://vision.ics.uci.edu/b">>
        /\ Len(extract_next_links(PageA.url, PageA)) = 3

(***************************************************************************)
(* C21: a save_report call never blocks forever, whatever it interleaves   *)
(* with, and the lock is free once the calls that took it have returned.   *)
(***************************************************************************)
\* thread t has a save_report call that has not returned
InSaveReport(t) == \E i \in 1..Depth(t) : stack[t][i].fn = "save_report"

\* thread t is inside a with _lock block
InsideLock(t) == \E i \in 1..Depth(t) : HoldsLock(stack[t][i])

\* the lock is held by a thread inside a with _lock block, and by no other
LockFreeAfterReturn == \A t \in Threads : _lock = t <=> InsideLock(t)

\* save_report in the signal handler waits at line 233 for the lock that the
\* frame it interrupted holds
SelfDeadlock ==
    /\ Running("main", "save_report", "acquire")
    /\ \E i \in 1..(Depth("main") - 1) : HoldsLock(stack["main"][i])

\* thread t has no save_report call left, or the process has ended and its daemon
\* threads with it
SaveReportOver(t) == ~InSaveReport(t) \/ phase = "done"

\* C21: every save_report call, in a worker or in the main thread's exit or signal
\* handler, returns in the end unless the process ends first, and at every moment
\* the lock is held only by a thread that is inside a with _lock block of
\* record_page or save_report
C21_SaveReportNeverBlocks ==
    /\ \A t \in Threads : InSaveReport(t) ~> SaveReportOver(t)
    /\ []LockFreeAfterReturn

\* the part of C21 that holds: the with blocks and the unwinding of sys.exit free
\* the lock
C21_LockDiscipline == LockFreeAfterReturn

\* a save_report call that does not return waits, in the main thread or behind it,
\* for the lock of the frame that the signal handler interrupted: there is no other
\* way for it to block
C21_BlocksOnlyBySelfDeadlock ==
    \A t \in Threads : InSaveReport(t) ~> (SaveReportOver(t) \/ SelfDeadlock)

\* the state the code does not leave by itself
C21_NoSelfDeadlock == ~SelfDeadlock

====
